---- MODULE Spec2Model ----
(***************************************************************************)
(* Model of LoadBuildingAnnotations (polybuilding/pipelines/loading.py):   *)
(* the polygon resampler uniformsample, the canonical rotation             *)
(* unify_origin_polygon, the simplifier process_polygons_m, the            *)
(* fixed-length path unify_polygons and the loop of _load_masks.           *)
(*                                                                         *)
(* Conventions.  Sequences are 1-based: Python index i is position i + 1.  *)
(* A point is <<x, y>>.  Floating-point coordinates and lengths are kept   *)
(* in fixed point, as integers in units of 1/Scale; the raw annotation     *)
(* coordinates are integers.  numpy's argsort (default kind, not stable)   *)
(* may return any ordering that sorts the keys: it is a choice over        *)
(* Argsorts.  shapely's is_ccw on a ring of zero area is a choice over both *)
(* answers.  The rasterisation of the masks (poly2mask) and the training   *)
(* switch of _load_masks are not modelled: the loop over the instances is. *)
(***************************************************************************)
EXTENDS Integers, Sequences, FiniteSets, TLC

\* ------------------------------------------------------------------ bounds
\* Fixed-point resolution of a float: 1/Scale.
Scale == 1000
\* uniformsample alone: most vertices of the input, largest target count.
MaxP == 4
MaxN == 5
\* unify_origin_polygon alone: most vertices of the input.
MaxOriginLen == 4
\* _load_masks: most polygon parts in one image, over all its instances.
MaxParts == 2

\* ----------------------------------------------------------------- helpers
Range(s) == {s[i] : i \in 1..Len(s)}

\* A sequence given by a function constructor, evaluated once into a tuple.
Tup(f) == SubSeq(f, 1, Len(f))

Min2(a, b) == IF a <= b THEN a ELSE b

Max2(a, b) == IF a >= b THEN a ELSE b

Abs(a) == IF a < 0 THEN -a ELSE a

RECURSIVE SumSeq(_)
SumSeq(s) == IF Len(s) = 0 THEN 0 ELSE Head(s) + SumSeq(Tail(s))

RECURSIVE Concat(_)
Concat(ss) == IF Len(ss) = 0 THEN <<>> ELSE Head(ss) \o Concat(Tail(ss))

MinOf(S) == CHOOSE m \in S : \A x \in S : m <= x

MaxOf(S) == CHOOSE m \in S : \A x \in S : m >= x

\* np.sqrt on a non-negative number: the floor of the square root, by bisection.
RECURSIVE IsqrtIter(_, _, _)
IsqrtIter(n, lo, hi) ==
    IF lo >= hi THEN lo
    ELSE LET mid == (lo + hi + 1) \div 2
         IN  IF mid * mid <= n THEN IsqrtIter(n, mid, hi)
             ELSE IsqrtIter(n, lo, mid - 1)

Isqrt(n) == IsqrtIter(n, 0, Min2(n, 46340))

\* np.round(a / b) for a >= 0, b > 0: to nearest, a tie to the even neighbour.
RoundHalfEven(a, b) ==
    LET q == a \div b
        r == a % b
    IN  IF 2 * r < b THEN q
        ELSE IF 2 * r > b THEN q + 1
        ELSE IF q % 2 = 0 THEN q ELSE q + 1

\* A raw integer point as a float.
ToFloat(poly) == Tup([i \in 1..Len(poly) |-> <<poly[i][1] * Scale, poly[i][2] * Scale>>])

SqDist(p, q) == (p[1] - q[1]) * (p[1] - q[1]) + (p[2] - q[2]) * (p[2] - q[2])

\* np.argmin: the first position holding the minimum.
ArgminLast(s) == CHOOSE i \in 1..Len(s) :
    (\A j \in 1..Len(s) : s[i] <= s[j]) /\ (\A j \in (i + 1)..Len(s) : s[j] # s[i])

Argmin(s) == CHOOSE i \in 1..Len(s) :
    (\A j \in 1..Len(s) : s[i] <= s[j]) /\ (\A j \in 1..(i - 1) : s[j] # s[i])

Perms(n) == {p \in [1..n -> 1..n] : \A i, j \in 1..n : i # j => p[i] # p[j]}

\* np.argsort(keys): every index order in which the keys ascend.
Argsorts(keys) ==
    {p \in Perms(Len(keys)) : \A i \in 1..(Len(keys) - 1) : keys[p[i]] <= keys[p[i + 1]]}

\* np.sort of a sequence of distinct indices.
RECURSIVE SortSet(_)
SortSet(S) == IF S = {} THEN <<>> ELSE <<MinOf(S)>> \o SortSet(S \ {MinOf(S)})

\* ------------------------------------------------------------ uniformsample
\* idxnext_p: the position after i, cyclically.
IdxNext(i, pnum) == (i % pnum) + 1

\* edgelen_p: the length of the edge leaving each vertex.
EdgeLen(poly) ==
    Tup([i \in 1..Len(poly) |-> Isqrt(SqDist(poly[IdxNext(i, Len(poly))], poly[i]))])

\* The contraction branch: keep the vertices whose outgoing edge is one of the
\* newpnum last of the argsort, in index order.
KeepUnsorted(poly, sortidx, n) ==
    Tup([k \in 1..n |-> poly[sortidx[Len(poly) - n + k]]])

Keep(poly, sortidx, n) ==
    LET edgeidxkeep_k == {sortidx[k] : k \in (Len(poly) - n + 1)..Len(poly)}
        edgeidxsort_k == SortSet(edgeidxkeep_k)
    IN  Tup([k \in 1..Len(edgeidxsort_k) |-> poly[edgeidxsort_k[k]]])

\* The subdivision branch: the rounded share of each edge, at least 1.
EdgeNumNoFloor(lens, n) ==
    Tup([i \in 1..Len(lens) |-> RoundHalfEven(lens[i] * n, SumSeq(lens))])

EdgeNumInit(lens, n) ==
    Tup([i \in 1..Len(lens) |->
        LET e == RoundHalfEven(lens[i] * n, SumSeq(lens))
        IN  IF e = 0 THEN 1 ELSE e])

\* One pass of the while loop over the excess.  st = [edgenum, id, passnum, err];
\* Python's edgeidxsort_p[id] with id < 0 is position pnum + 1 + id, and an
\* IndexError when that is below 1.
ExcessStepNoFloor(st, sortidx) ==
    LET pnum == Len(sortidx)
        pos == pnum + 1 + st.id
    IN  IF pos < 1
        THEN [edgenum |-> st.edgenum, id |-> st.id, passnum |-> st.passnum,
              err |-> "IndexError"]
        ELSE LET edgeid == sortidx[pos]
             IN  [edgenum |-> Tup([k \in 1..Len(st.edgenum) |->
                                  IF k = edgeid THEN st.edgenum[k] - st.passnum
                                  ELSE st.edgenum[k]]),
                  id |-> st.id, passnum |-> 0, err |-> st.err]

ExcessStep(st, sortidx) ==
    LET pnum == Len(sortidx)
        pos == pnum + 1 + st.id
    IN  IF pos < 1
        THEN [edgenum |-> st.edgenum, id |-> st.id, passnum |-> st.passnum,
              err |-> "IndexError"]
        ELSE LET edgeid == sortidx[pos]
             IN  IF st.edgenum[edgeid] > st.passnum
                 THEN [edgenum |-> Tup([k \in 1..Len(st.edgenum) |->
                                      IF k = edgeid THEN st.edgenum[k] - st.passnum
                                      ELSE st.edgenum[k]]),
                       id |-> st.id, passnum |-> 0, err |-> st.err]
                 ELSE [edgenum |-> Tup([k \in 1..Len(st.edgenum) |->
                                      IF k = edgeid THEN 1 ELSE st.edgenum[k]]),
                       id |-> st.id - 1,
                       passnum |-> st.passnum - (st.edgenum[edgeid] - 1),
                       err |-> st.err]

RECURSIVE ExcessLoop(_, _)
ExcessLoop(st, sortidx) ==
    IF st.passnum > 0 /\ st.err = "none"
    THEN ExcessLoop(ExcessStep(st, sortidx), sortidx)
    ELSE st

\* The deficit: all of it goes to the last edge of the argsort.
Deficit(edgenum, sortidx, n) ==
    LET edgeid == sortidx[Len(sortidx)]
    IN  Tup([k \in 1..Len(edgenum) |->
            IF k = edgeid THEN edgenum[k] + (n - SumSeq(edgenum)) ELSE edgenum[k]])

\* The points of one edge: pb * (1 - k/m) + pe * (k/m) for k = 0..m-1.
EdgePointsClosed(pb, pe, m) ==
    Tup([j \in 1..(m + 1) |-> <<(pb[1] * (m - (j - 1)) + pe[1] * (j - 1)) \div m,
                                (pb[2] * (m - (j - 1)) + pe[2] * (j - 1)) \div m>>])

EdgePoints(pb, pe, m) ==
    Tup([j \in 1..m |-> <<(pb[1] * (m - (j - 1)) + pe[1] * (j - 1)) \div m,
                          (pb[2] * (m - (j - 1)) + pe[2] * (j - 1)) \div m>>])

Interpolate(poly, edgenum) ==
    Concat(Tup([i \in 1..Len(poly) |->
        EdgePoints(poly[i], poly[IdxNext(i, Len(poly))], edgenum[i])]))

\* uniformsample as a function of the polygon, the target and the argsort
\* outcome: [err, pts].
UniformSample(poly, n, sortidx) ==
    LET pnum == Len(poly)
        lens == EdgeLen(poly)
    IN  IF pnum > n THEN [err |-> "none", pts |-> Keep(poly, sortidx, n)]
        ELSE
        LET en0 == EdgeNumInit(lens, n)
            sum0 == SumSeq(en0)
            st == IF sum0 > n
                  THEN ExcessLoop([edgenum |-> en0, id |-> -1,
                                   passnum |-> sum0 - n, err |-> "none"], sortidx)
                  ELSE IF sum0 < n
                  THEN [edgenum |-> Deficit(en0, sortidx, n), id |-> -1,
                        passnum |-> 0, err |-> "none"]
                  ELSE [edgenum |-> en0, id |-> -1, passnum |-> 0, err |-> "none"]
        IN  IF st.err # "none" THEN [err |-> st.err, pts |-> <<>>]
            ELSE IF SumSeq(st.edgenum) # n THEN [err |-> "AssertionError", pts |-> <<>>]
            ELSE [err |-> "none", pts |-> Interpolate(poly, st.edgenum)]

\* ----------------------------------------------------- unify_origin_polygon
BBox(poly) ==
    [xmin |-> MinOf({poly[i][1] : i \in 1..Len(poly)}),
     xmax |-> MaxOf({poly[i][1] : i \in 1..Len(poly)}),
     ymin |-> MinOf({poly[i][2] : i \in 1..Len(poly)}),
     ymax |-> MaxOf({poly[i][2] : i \in 1..Len(poly)})]

\* dist, times 4: tcx = (xmin + xmax) / 2 is kept doubled.
OriginDist(poly) ==
    LET b == BBox(poly)
    IN  Tup([i \in 1..Len(poly) |->
            (2 * poly[i][1] - (b.xmin + b.xmax)) * (2 * poly[i][1] - (b.xmin + b.xmax))
          + (2 * poly[i][2] - 2 * b.ymin) * (2 * poly[i][2] - 2 * b.ymin)])

\* new_poly[:n-k] = poly[k:], new_poly[n-k:] = poly[:k], k the 0-based argmin.
RotateTo(poly, k0) ==
    Tup([i \in 1..Len(poly) |->
        IF i <= Len(poly) - k0 THEN poly[k0 + i] ELSE poly[i - (Len(poly) - k0)]])

UnifyOriginLastMin(poly) == RotateTo(poly, ArgminLast(OriginDist(poly)) - 1)

UnifyOriginPolygon(poly) == RotateTo(poly, Argmin(OriginDist(poly)) - 1)

\* ------------------------------------------------------------ normalizer
\* np.array(p).reshape(-1, 2) of a flat list of even length.
Reshape(flat) == Tup([k \in 1..(Len(flat) \div 2) |-> <<flat[2 * k - 1], flat[2 * k]>>])

\* Twice the signed shoelace sum: sum x_i * y_(i-1) - sum y_i * x_(i-1).
Shoelace2(p) ==
    LET n == Len(p)
        prev(k) == IF k = 1 THEN n ELSE k - 1
    IN  SumSeq(Tup([k \in 1..n |-> p[k][1] * p[prev(k)][2] - p[k][2] * p[prev(k)][1]]))

\* _polygon_area(poly) > 5, with the area kept doubled.
AreaAbove5(p) == Abs(Shoelace2(p)) > 10

SelectPolys(ps, Test(_)) ==
    LET F[k \in 0..Len(ps)] ==
            IF k = 0 THEN <<>>
            ELSE IF Test(ps[k]) THEN Append(F[k - 1], ps[k]) ELSE F[k - 1]
    IN  F[Len(ps)]

NotThin(p) ==
    LET b == BBox(p) IN b.xmax - b.xmin >= 1 /\ b.ymax - b.ymin >= 1

FilterTinyPolys(polys) == SelectPolys(SelectPolys(polys, NotThin), AreaAbove5)

\* The rectangle of a bounding box <<xmin, ymin, xmax, ymax>>: tl, bl, br, tr.
BBoxRect(b) == << <<b[1], b[2]>>, <<b[1], b[4]>>, <<b[3], b[4]>>, <<b[3], b[2]>> >>

\* Shapely's Polygon(poly).exterior.is_ccw: the sign of the signed area; on a
\* ring of zero area the answer depends on the GEOS build.
IsCcwOutcomes(p) ==
    LET a2 == SumSeq(Tup([k \in 1..Len(p) |->
                  p[k][1] * p[IdxNext(k, Len(p))][2] - p[IdxNext(k, Len(p))][1] * p[k][2]]))
    IN  IF a2 > 0 THEN {TRUE} ELSE IF a2 < 0 THEN {FALSE} ELSE BOOLEAN

Reverse(p) == Tup([k \in 1..Len(p) |-> p[Len(p) + 1 - k]])

\* get_cw_poly, given what is_ccw answered.
GetCwPoly(p, ccw) == IF ccw THEN Reverse(p) ELSE p

\* The 0-based position of the sample nearest to the last one.
LastNearest(pts) == Argmin(Tup([k \in 1..Len(pts) |-> SqDist(pts[k], pts[Len(pts)])])) - 1

\* Lines 251-253: the 0-based position of the sample nearest to the first one.
FirstNearest(pts) == Argmin(Tup([k \in 1..Len(pts) |-> SqDist(pts[k], pts[1])])) - 1

\* np.roll(p, -k, axis=0) for 0 <= k < len(p).
Roll(p, k) == Tup([j \in 1..Len(p) |-> p[((j - 1 + k) % Len(p)) + 1]])

\* p[::step] for step > 0.
Stride(p, step) ==
    Tup([j \in 1..((Len(p) + step - 1) \div step) |-> p[(j - 1) * step + 1]])

\* ------------------------------------------------------------- simplifier
\* Squared distance from p to the segment a-b, times Max2(|ab|^2, 1).
SegDistNum(p, a, b) ==
    LET l2 == SqDist(a, b)
        t == (p[1] - a[1]) * (b[1] - a[1]) + (p[2] - a[2]) * (b[2] - a[2])
        cr == (b[1] - a[1]) * (p[2] - a[2]) - (b[2] - a[2]) * (p[1] - a[1])
    IN  IF l2 = 0 THEN SqDist(p, a)
        ELSE IF t <= 0 THEN SqDist(p, a) * l2
        ELSE IF t >= l2 THEN SqDist(p, b) * l2
        ELSE cr * cr

\* Douglas-Peucker on ring[i..j] with tolerance 0.5: the positions kept.
RECURSIVE DPKeep(_, _, _)
DPKeep(ring, i, j) ==
    IF j <= i + 1 THEN {i, j}
    ELSE LET d == [k \in (i + 1)..(j - 1) |-> SegDistNum(ring[k], ring[i], ring[j])]
             far == CHOOSE k \in (i + 1)..(j - 1) :
                        /\ \A m \in (i + 1)..(j - 1) : d[k] >= d[m]
                        /\ \A m \in (i + 1)..(k - 1) : d[m] < d[k]
         IN  IF 4 * d[far] > Max2(SqDist(ring[i], ring[j]), 1)
             THEN DPKeep(ring, i, far) \cup DPKeep(ring, far, j)
             ELSE {i, j}

\* Polygon(pts).simplify(0.5).exterior.coords: the closed ring, simplified.
Simplify(pts) ==
    LET ring == Append(pts, pts[1])
        keep == SortSet(DPKeep(ring, 1, Len(ring)))
    IN  Tup([k \in 1..Len(keep) |-> ring[keep[k]]])

\* Lines 178-179: drop the closing point.
DropClosing(c) == IF c[1] = c[Len(c)] THEN SubSeq(c, 1, Len(c) - 1) ELSE c

\* Lines 181-185: start at the lowest y, the lowest x among those.
RollToMinY(p) ==
    LET min_y == MinOf({p[k][2] : k \in 1..Len(p)})
        min_idy == SortSet({k \in 1..Len(p) : p[k][2] = min_y})
        min_idx == Argmin([k \in 1..Len(min_idy) |-> p[min_idy[k]][1]])
    IN  Roll(p, min_idy[min_idx] - 1)

\* Line 186.
Thres(num_points) == IF num_points <= 0 THEN 64 ELSE num_points

\* Lines 174-185: the simplified polygon of one valid part, before the cut to T.
Keypoints(flat) == RollToMinY(DropClosing(Simplify(Reshape(flat))))

\* Lines 197-200: zero-padded to T points, weight 1 on the real ones.
Pad(p, T) ==
    [pts |-> Tup([k \in 1..T |-> IF k <= Len(p) THEN p[k] ELSE <<0, 0>>]),
     w   |-> Tup([k \in 1..T |-> IF k <= Len(p) THEN 1 ELSE 0])]

\* Lines 173-200 for one valid part: every result the argsort allows.
PartOutcomes(flat, num_points) ==
    LET p == Keypoints(flat)
        T == Thres(num_points)
    IN  IF Len(p) > T
        THEN {Pad(Keep(p, s, T), T) : s \in Argsorts(EdgeLen(ToFloat(p)))}
        ELSE {Pad(p, T)}

\* Lines 155 and 173: the test of a well-formed part.
ValidPart(flat) == Len(flat) % 2 = 0 /\ Len(flat) >= 6

\* process_polygons_m: every [polys, weights] it can return.
RECURSIVE ProcessPolygonsM(_, _)
ProcessPolygonsM(parts, num_points) ==
    IF Len(parts) = 0 THEN {[polys |-> <<>>, weights |-> <<>>]}
    ELSE LET rest == ProcessPolygonsM(Tail(parts), num_points)
         IN  IF ValidPart(Head(parts))
             THEN {[polys |-> <<o.pts>> \o r.polys, weights |-> <<o.w>> \o r.weights] :
                       o \in PartOutcomes(Head(parts), num_points), r \in rest}
             ELSE rest

\* ---------------------------------------------------------------- matcher
\* Line 389: the real keypoints, as floats.
RealKeypoints(pts, w) ==
    LET F[k \in 0..Len(pts)] ==
            IF k = 0 THEN <<>>
            ELSE IF w[k] > 0 THEN Append(F[k - 1], pts[k]) ELSE F[k - 1]
    IN  ToFloat(F[Len(pts)])

\* cdist: the Euclidean distance of row point r and column point c.
Cdist(rows, cols) ==
    Tup([r \in 1..Len(rows) |->
        Tup([c \in 1..Len(cols) |-> Isqrt(SqDist(rows[r], cols[c]))])])

\* The complete assignments of the shorter side, as sets of <<row, column>>.
Assignments(n, m) ==
    IF m <= n
    THEN {{<<f[c], c>> : c \in 1..m} :
              f \in {g \in [1..m -> 1..n] : \A a, b \in 1..m : a # b => g[a] # g[b]}}
    ELSE {{<<r, f[r]>> : r \in 1..n} :
              f \in {g \in [1..n -> 1..m] : \A a, b \in 1..n : a # b => g[a] # g[b]}}

RECURSIVE CostOf(_, _)
CostOf(dis, A) ==
    IF A = {} THEN 0
    ELSE LET e == CHOOSE x \in A : TRUE
         IN  dis[e[1]][e[2]] + CostOf(dis, A \ {e})

\* linear_sum_assignment: the assignments of least total cost.
WithCost(dis, all, least) == {A \in all : CostOf(dis, A) = least}

LeastCost(dis, all) == MinOf({CostOf(dis, A) : A \in all})

LinearSumAssignment(dis, n, m) ==
    WithCost(dis, Assignments(n, m), LeastCost(dis, Assignments(n, m)))

\* matched_row_inds (ascending) and the matched_col_inds beside them.
RowInds(A) == SortSet({e[1] : e \in A})

ColInds(A) ==
    LET rows == RowInds(A)
    IN  Tup([k \in 1..Len(rows) |-> (CHOOSE e \in A : e[1] = rows[k])[2]])

\* Line 393: the matched points take the keypoints' coordinates.
Snap(p, keys, rows, cols) ==
    Tup([r \in 1..Len(p) |->
        IF \E k \in 1..Len(rows) : rows[k] = r
        THEN keys[cols[CHOOSE k \in 1..Len(rows) : rows[k] = r]]
        ELSE p[r]])

\* Lines 395-396: ones, then the keypoint weight at the matched rows.
MatchLabelCols(num_points, rows, cols, kpw) ==
    Tup([r \in 1..num_points |-> IF r \in Range(cols) THEN kpw ELSE 1])

MatchLabel(num_points, rows, cols, kpw) ==
    Tup([r \in 1..num_points |-> IF r \in Range(rows) THEN kpw ELSE 1])

\* ------------------------------------------------------------------- state
VARIABLES
    \* uniformsample
    pc,             \* position in uniformsample
    pgtnp_px2,      \* the input polygon
    newpnum,        \* the target count
    edgelen_p,      \* the edge lengths
    edgeidxsort_p,  \* the argsort of the edge lengths
    loop,           \* [edgenum, id, passnum, err]: the subdivision branch's locals
    psample,        \* the returned points
    \* unify_origin_polygon
    opc,            \* position in unify_origin_polygon
    poly,           \* its argument
    new_poly,       \* its result
    \* _load_masks and what it calls
    cfg,            \* self: [num_points, spline_num, key_points_weight]
    gt_masks,       \* results["ann_info"]["masks"]: the parts of every instance
    gt_bboxes,      \* results["ann_info"]["bboxes"]
    lpc,            \* position in _load_masks
    inst_idx,       \* i, the instance of the outer loop
    polygons,       \* unify_polygons: the reshaped parts
    filtered_polygons,  \* unify_polygons: the parts kept, or the rectangle
    polygon,        \* unify_polygons: the part of the current pass
    sampled_polygon,    \* unify_polygons: what uniformsample returned
    tt_idx,         \* unify_polygons: the argmin, 0-based
    valid_polygon,  \* unify_polygons: the rolled sample, every spline_num-th point
    valid_polygons, \* unify_polygons' points; poly in _load_masks
    valid_weights,  \* unify_polygons' weights; poly_weight in _load_masks
    poly2,          \* process_polygons_m's points
    poly_weight2,   \* process_polygons_m's weights
    idx,            \* _idx of the matching loop
    matched_row_inds,
    matched_col_inds,
    gt_polys,       \* _gt_polys
    gt_weights,     \* _gt_weights
    err             \* the exception raised, or "none"

sampleVars == <<pc, pgtnp_px2, newpnum, edgelen_p, edgeidxsort_p, loop, psample>>

originVars == <<opc, poly, new_poly>>

unifyVars == <<polygons, filtered_polygons, polygon, sampled_polygon, tt_idx, valid_polygon>>

matchVars == <<poly2, poly_weight2, idx, matched_row_inds, matched_col_inds>>

inputVars == <<cfg, gt_masks, gt_bboxes>>

loadVars == <<inputVars, lpc, inst_idx, unifyVars, valid_polygons, valid_weights, matchVars,
              gt_polys, gt_weights, err>>

vars == <<sampleVars, originVars, loadVars>>

NoLoop == [edgenum |-> <<>>, id |-> -1, passnum |-> 0, err |-> "none"]

SampleIdle ==
    /\ pc = "idle" /\ pgtnp_px2 = <<>> /\ newpnum = 0 /\ edgelen_p = <<>>
    /\ edgeidxsort_p = <<>> /\ loop = NoLoop /\ psample = <<>>

OriginIdle == opc = "idle" /\ poly = <<>> /\ new_poly = <<>>

NoConfig == [num_points |-> 0, spline_num |-> 0, key_points_weight |-> 1]

LoadLocalsInit ==
    /\ inst_idx = 1 /\ polygons = <<>> /\ filtered_polygons = <<>> /\ polygon = <<>>
    /\ sampled_polygon = <<>> /\ tt_idx = 0 /\ valid_polygon = <<>>
    /\ valid_polygons = <<>> /\ valid_weights = <<>>
    /\ poly2 = <<>> /\ poly_weight2 = <<>> /\ idx = 1
    /\ matched_row_inds = <<>> /\ matched_col_inds = <<>>
    /\ gt_polys = <<>> /\ gt_weights = <<>> /\ err = "none"

LoadIdle ==
    /\ lpc = "idle" /\ cfg = NoConfig /\ gt_masks = <<>> /\ gt_bboxes = <<>>
    /\ LoadLocalsInit

\* ------------------------------------------------- uniformsample, by steps
\* The vertices the input polygons are drawn from.
SamplePts == {<<0, 0>>, <<0, 2>>, <<3, 2>>, <<1, 1>>}

PolysOver(S, lo, hi) == UNION {[1..n -> S] : n \in lo..hi}

Perimeter(p) == SumSeq(EdgeLen(p))

\* A closed polygon of 3..MaxP vertices and non-zero perimeter, a target > 0.
SampleInit ==
    /\ pc = "start"
    /\ pgtnp_px2 \in {ToFloat(p) : p \in {q \in PolysOver(SamplePts, 3, MaxP) : Perimeter(q) > 0}}
    /\ newpnum \in 1..MaxN
    /\ edgelen_p = <<>> /\ edgeidxsort_p = <<>> /\ loop = NoLoop /\ psample = <<>>
    /\ OriginIdle
    /\ LoadIdle

\* Lines 278-284: the edge lengths and their argsort.
SampleEdges ==
    /\ pc = "start"
    /\ edgelen_p' = EdgeLen(pgtnp_px2)
    /\ edgeidxsort_p' \in Argsorts(EdgeLen(pgtnp_px2))
    /\ pc' = "branch"
    /\ UNCHANGED <<pgtnp_px2, newpnum, loop, psample, originVars, loadVars>>

\* Lines 289-294: more vertices than wanted, the shortest edges go.
SampleContract ==
    /\ pc = "branch"
    /\ Len(pgtnp_px2) > newpnum
    /\ psample' = Keep(pgtnp_px2, edgeidxsort_p, newpnum)
    /\ pc' = IF Len(psample') = newpnum THEN "done" ELSE "error"
    /\ UNCHANGED <<pgtnp_px2, newpnum, edgelen_p, edgeidxsort_p, loop, originVars, loadVars>>

\* Lines 297-308: the rounded shares, floored to 1, and the test of their sum.
SampleRound ==
    /\ pc = "branch"
    /\ Len(pgtnp_px2) <= newpnum
    /\ LET en == EdgeNumInit(edgelen_p, newpnum)
           edgenumsum == SumSeq(en)
       IN  /\ loop' = [edgenum |-> en, id |-> -1, err |-> "none",
                       passnum |-> IF edgenumsum > newpnum THEN edgenumsum - newpnum ELSE 0]
           /\ pc' = IF edgenumsum > newpnum THEN "excess"
                    ELSE IF edgenumsum < newpnum THEN "deficit" ELSE "interp"
    /\ UNCHANGED <<pgtnp_px2, newpnum, edgelen_p, edgeidxsort_p, psample, originVars, loadVars>>

\* Lines 309-317: one pass of the while loop and its test.
SampleExcessStep ==
    /\ pc = "excess"
    /\ loop' = ExcessStep(loop, edgeidxsort_p)
    /\ pc' = IF loop'.err # "none" THEN "error"
             ELSE IF loop'.passnum > 0 THEN "excess" ELSE "interp"
    /\ UNCHANGED <<pgtnp_px2, newpnum, edgelen_p, edgeidxsort_p, psample, originVars, loadVars>>

\* Lines 318-321: the deficit.
SampleDeficit ==
    /\ pc = "deficit"
    /\ loop' = [edgenum |-> Deficit(loop.edgenum, edgeidxsort_p, newpnum),
                id |-> loop.id, passnum |-> loop.passnum, err |-> loop.err]
    /\ pc' = "interp"
    /\ UNCHANGED <<pgtnp_px2, newpnum, edgelen_p, edgeidxsort_p, psample, originVars, loadVars>>

\* Lines 323-339: the assertion on the sum, then the points of every edge.
SampleInterp ==
    /\ pc = "interp"
    /\ IF SumSeq(loop.edgenum) = newpnum
       THEN /\ psample' = Interpolate(pgtnp_px2, loop.edgenum)
            /\ pc' = "done"
            /\ loop' = loop
       ELSE /\ psample' = psample
            /\ pc' = "error"
            /\ loop' = [edgenum |-> loop.edgenum, id |-> loop.id,
                        passnum |-> loop.passnum, err |-> "AssertionError"]
    /\ UNCHANGED <<pgtnp_px2, newpnum, edgelen_p, edgeidxsort_p, originVars, loadVars>>

NextSample ==
    \/ SampleEdges
    \/ SampleContract
    \/ SampleRound
    \/ SampleExcessStep
    \/ SampleDeficit
    \/ SampleInterp

SpecSample == SampleInit /\ [][NextSample]_vars

\* -------------------------------------------- unify_origin_polygon, alone
OriginPts == {<<0, 0>>, <<0, 2>>, <<2, 0>>, <<2, 2>>, <<1, 0>>, <<1, 3>>, <<3, 1>>}

OriginInit ==
    /\ opc = "start"
    /\ poly \in {ToFloat(p) : p \in PolysOver(OriginPts, 1, MaxOriginLen)}
    /\ new_poly = <<>>
    /\ SampleIdle
    /\ LoadIdle

\* Lines 263-275.
UnifyOrigin ==
    /\ opc = "start"
    /\ new_poly' = UnifyOriginPolygon(poly)
    /\ opc' = "done"
    /\ UNCHANGED <<poly, sampleVars, loadVars>>

NextOrigin == UnifyOrigin

SpecOrigin == OriginInit /\ [][NextOrigin]_vars

\* ------------------------------------------------------------ _load_masks
\* The parts the annotations are drawn from, as flat coordinate lists: a
\* triangle of area 6, a triangle of area 2 (tiny), a pentagon, a part of two
\* points and a part of odd length (both malformed).
PartChoices ==
    { <<0, 0, 0, 4, 3, 0>>,
      <<0, 0, 2, 0, 0, 2>>,
      <<0, 0, 0, 3, 2, 3, 3, 2, 3, 0>>,
      <<0, 0, 3, 2>>,
      <<0, 0, 3, 0, 3>> }

NumPointsChoices == {0, 4}

SplineNumChoices == {0, 8, 10}

KeyPointsWeightChoices == {1, 2}

\* The images whose instances hold at most budget parts in all.
RECURSIVE ImagesWith(_)
ImagesWith(budget) ==
    {<<>>} \cup
    UNION {{<<inst>> \o rest : inst \in [1..n -> PartChoices], rest \in ImagesWith(budget - n)} :
               n \in 1..budget}

\* The bounding box the annotation gives an instance: that of its coordinates.
InstanceBBox(inst) ==
    LET xs == UNION {{inst[k][j] : j \in {m \in 1..Len(inst[k]) : m % 2 = 1}} : k \in 1..Len(inst)}
        ys == UNION {{inst[k][j] : j \in {m \in 1..Len(inst[k]) : m % 2 = 0}} : k \in 1..Len(inst)}
    IN  <<MinOf(xs), MinOf(ys), MaxOf(xs), MaxOf(ys)>>

\* Line 64.
SplinePolyNum == cfg.num_points * 10

Ones(n) == Tup([k \in 1..n |-> 1])

LoadInit ==
    /\ lpc = "loop"
    /\ cfg \in [num_points : NumPointsChoices, spline_num : SplineNumChoices,
                key_points_weight : KeyPointsWeightChoices]
    /\ gt_masks \in ImagesWith(MaxParts)
    /\ gt_bboxes = [k \in 1..Len(gt_masks) |-> InstanceBBox(gt_masks[k])]
    /\ LoadLocalsInit
    /\ SampleIdle
    /\ OriginIdle

Raise(e) == lpc' = "error" /\ err' = e

\* Lines 379-382 and 237-245: the fixed-length path enters unify_polygons,
\* which reshapes every part and filters the tiny ones.
EnterUnify ==
    /\ lpc = "loop" /\ inst_idx <= Len(gt_masks)
    /\ cfg.spline_num > 0
    /\ IF \E k \in 1..Len(gt_masks[inst_idx]) : Len(gt_masks[inst_idx][k]) % 2 # 0
       THEN /\ Raise("ValueError")
            /\ UNCHANGED <<polygons, filtered_polygons>>
       ELSE LET ps == [k \in 1..Len(gt_masks[inst_idx]) |-> Reshape(gt_masks[inst_idx][k])]
                kept == FilterTinyPolys(ps)
            IN  /\ polygons' = ps
                /\ filtered_polygons' =
                       IF Len(kept) = 0 THEN <<BBoxRect(gt_bboxes[inst_idx])>> ELSE kept
                /\ lpc' = "unify"
                /\ err' = err
    /\ valid_polygons' = <<>>
    /\ valid_weights' = <<>>
    /\ UNCHANGED <<inputVars, inst_idx, polygon, sampled_polygon, tt_idx, valid_polygon,
                   matchVars, gt_polys, gt_weights, sampleVars, originVars>>

\* The parts the loop of line 249 runs over.
LoopPolygons == polygons

\* Lines 249-260: one pass of the loop of unify_polygons.
UnifyPart ==
    /\ lpc = "unify" /\ Len(valid_polygons) < Len(LoopPolygons)
    /\ LET pg == ToFloat(LoopPolygons[Len(valid_polygons) + 1])
       IN  /\ polygon' = LoopPolygons[Len(valid_polygons) + 1]
           /\ \E s \in Argsorts(EdgeLen(pg)), ccw \in BOOLEAN :
                LET r == UniformSample(pg, SplinePolyNum, s)
                    tt == FirstNearest(r.pts)
                    vp == Stride(Roll(r.pts, tt), cfg.spline_num)
                IN  IF r.err # "none"
                    THEN /\ Raise(r.err)
                         /\ UNCHANGED <<sampled_polygon, tt_idx, valid_polygon,
                                        valid_polygons, valid_weights>>
                    ELSE IF Len(r.pts) = 0
                    \* sampled_polygon[0] of an empty array
                    THEN /\ Raise("IndexError")
                         /\ sampled_polygon' = r.pts
                         /\ UNCHANGED <<tt_idx, valid_polygon, valid_polygons, valid_weights>>
                    ELSE IF Len(vp) < 3
                    \* shapely: a ring needs at least 3 points
                    THEN /\ Raise("ValueError")
                         /\ sampled_polygon' = r.pts
                         /\ tt_idx' = tt
                         /\ valid_polygon' = vp
                         /\ UNCHANGED <<valid_polygons, valid_weights>>
                    ELSE /\ ccw \in IsCcwOutcomes(vp)
                         /\ sampled_polygon' = r.pts
                         /\ tt_idx' = tt
                         /\ valid_polygon' = vp
                         /\ valid_polygons' =
                                Append(valid_polygons, UnifyOriginPolygon(GetCwPoly(vp, ccw)))
                         /\ valid_weights' = Append(valid_weights, Ones(cfg.num_points))
                         /\ UNCHANGED <<lpc, err>>
    /\ UNCHANGED <<inputVars, inst_idx, polygons, filtered_polygons, matchVars,
                   gt_polys, gt_weights, sampleVars, originVars>>

\* Lines 261 and 382-384: unify_polygons returns, process_polygons_m runs.
UnifyReturn ==
    /\ lpc = "unify" /\ Len(valid_polygons) = Len(LoopPolygons)
    /\ \E r \in ProcessPolygonsM(gt_masks[inst_idx], cfg.num_points) :
          /\ poly2' = r.polys
          /\ poly_weight2' = r.weights
    /\ idx' = 1
    /\ lpc' = "match"
    /\ UNCHANGED <<inputVars, inst_idx, unifyVars, valid_polygons, valid_weights,
                   matched_row_inds, matched_col_inds, gt_polys, gt_weights, err,
                   sampleVars, originVars>>

\* Lines 385-397: one pass of the matching loop.
MatchPart ==
    /\ lpc = "match" /\ idx <= Len(valid_polygons)
    /\ IF idx > Len(poly2)
       THEN /\ Raise("IndexError")
            /\ UNCHANGED <<valid_polygons, valid_weights, idx, matched_row_inds, matched_col_inds>>
       ELSE LET keys == RealKeypoints(poly2[idx], poly_weight2[idx])
                p == valid_polygons[idx]
            IN  \E A \in LinearSumAssignment(Cdist(p, keys), Len(p), Len(keys)) :
                  /\ matched_row_inds' = RowInds(A)
                  /\ matched_col_inds' = ColInds(A)
                  /\ valid_polygons' = [valid_polygons EXCEPT ![idx] =
                         Snap(p, keys, RowInds(A), ColInds(A))]
                  /\ IF \E r \in Range(RowInds(A)) : r > cfg.num_points
                     THEN /\ Raise("IndexError")
                          /\ UNCHANGED <<valid_weights, idx>>
                     ELSE /\ valid_weights' = [valid_weights EXCEPT ![idx] =
                                 MatchLabel(cfg.num_points, RowInds(A), ColInds(A),
                                            cfg.key_points_weight)]
                          /\ idx' = idx + 1
                          /\ UNCHANGED <<lpc, err>>
    /\ UNCHANGED <<inputVars, inst_idx, unifyVars, poly2, poly_weight2,
                   gt_polys, gt_weights, sampleVars, originVars>>

\* Lines 400-401 after the matching loop.
InstanceDone ==
    /\ lpc = "match" /\ idx > Len(valid_polygons)
    /\ gt_polys' = Append(gt_polys, valid_polygons)
    /\ gt_weights' = Append(gt_weights, valid_weights)
    /\ inst_idx' = inst_idx + 1
    /\ lpc' = "loop"
    /\ UNCHANGED <<inputVars, unifyVars, valid_polygons, valid_weights, matchVars, err,
                   sampleVars, originVars>>

\* Lines 398-401: the simplifier alone.
SimplifyOnly ==
    /\ lpc = "loop" /\ inst_idx <= Len(gt_masks)
    /\ ~(cfg.spline_num > 0)
    /\ \E r \in ProcessPolygonsM(gt_masks[inst_idx], cfg.num_points) :
          /\ gt_polys' = Append(gt_polys, r.polys)
          /\ gt_weights' = Append(gt_weights, r.weights)
    /\ inst_idx' = inst_idx + 1
    /\ UNCHANGED <<inputVars, lpc, unifyVars, valid_polygons, valid_weights, matchVars, err,
                   sampleVars, originVars>>

\* Lines 403-415: the masks are handed over.
LoadFinish ==
    /\ lpc = "loop" /\ inst_idx > Len(gt_masks)
    /\ lpc' = "done"
    /\ UNCHANGED <<inputVars, inst_idx, unifyVars, valid_polygons, valid_weights, matchVars,
                   gt_polys, gt_weights, err, sampleVars, originVars>>

Next ==
    \/ EnterUnify
    \/ UnifyPart
    \/ UnifyReturn
    \/ MatchPart
    \/ InstanceDone
    \/ SimplifyOnly
    \/ LoadFinish

Init == LoadInit

Spec == Init /\ [][Next]_vars

\* ------------------------------------------------ properties: uniformsample
InSubdivision == Len(pgtnp_px2) <= newpnum

\* The edge the loop reads at id.
EdgeAt(i) == edgeidxsort_p[Len(edgeidxsort_p) + 1 + i]

\* np.argsort with kind='stable': ties in index order.
StableArgsort(keys) ==
    CHOOSE p \in Argsorts(keys) :
        \A i, j \in 1..Len(keys) : (i < j /\ keys[p[i]] = keys[p[j]]) => p[i] < p[j]

\* C1: uniformsample on a closed polygon of P >= 3 vertices and non-zero
\* perimeter with a target N > 0 never fails and returns exactly N points, in
\* the contraction branch and in the subdivision branch.
C1_ResampleCardinality ==
    /\ pc # "error"
    /\ pc = "done" => Len(psample) = newpnum

\* C1 witness: the subdivision branch returned after the excess loop ran.
C1_Witness ==
    /\ pc = "done" /\ InSubdivision
    /\ SumSeq(EdgeNumInit(edgelen_p, newpnum)) > newpnum
    /\ Len(psample) = newpnum /\ newpnum > Len(pgtnp_px2)

\* C6: in the subdivision branch, after the floor to 1 and the correction of
\* the excess or deficit, the per-edge counts sum to N and none is below 1.
C6_SubdivisionSum ==
    pc \in {"interp", "done"} /\ InSubdivision =>
        /\ SumSeq(loop.edgenum) = newpnum
        /\ \A i \in 1..Len(loop.edgenum) : loop.edgenum[i] >= 1

\* C6 witness: an edge whose rounded share was 0 was floored to 1 and the
\* excess was then taken from the longer edges.
C6_Witness ==
    /\ pc = "interp" /\ loop.id < -1
    /\ \E i \in 1..Len(edgelen_p) : EdgeNumNoFloor(edgelen_p, newpnum)[i] = 0
    /\ SumSeq(loop.edgenum) = newpnum

\* The index sets the contraction branch may keep: N vertices none of whose
\* outgoing edges is shorter than a dropped one.
LongestSets(lens, n) ==
    {K \in SUBSET (1..Len(lens)) :
        /\ Cardinality(K) = n
        /\ \A k \in K : \A d \in (1..Len(lens)) \ K : lens[k] >= lens[d]}

\* C7 as stated: the contraction branch returns the vertices a stable
\* ascending sort of the edge lengths keeps, so the input determines them.
C7_StableTieBreak ==
    pc = "done" /\ ~InSubdivision =>
        psample = Keep(pgtnp_px2, StableArgsort(edgelen_p), newpnum)

\* C7 amended: the contraction branch returns N input vertices in strictly
\* increasing index order, none of whose outgoing edges is shorter than a
\* dropped one; where only one such set exists (no tie across the cut) it is
\* the one a stable sort keeps.
C7_LongestInOrder ==
    pc = "done" /\ ~InSubdivision =>
        /\ \E K \in LongestSets(edgelen_p, newpnum) :
              psample = [k \in 1..newpnum |-> pgtnp_px2[SortSet(K)[k]]]
        /\ Cardinality(LongestSets(edgelen_p, newpnum)) = 1 =>
              psample = Keep(pgtnp_px2, StableArgsort(edgelen_p), newpnum)

\* C7 witness: a contraction with a tie across the cut that kept other
\* vertices than a stable sort would.
C7_Witness ==
    /\ pc = "done" /\ ~InSubdivision
    /\ Cardinality(LongestSets(edgelen_p, newpnum)) > 1
    /\ psample # Keep(pgtnp_px2, StableArgsort(edgelen_p), newpnum)

\* The measure of the excess loop: the excess left plus the edges not yet visited.
Variant(l) == l.passnum + Len(edgeidxsort_p) + 1 + l.id

ExcessInv ==
    pc = "excess" =>
        /\ loop.passnum > 0
        /\ -loop.id <= Len(edgeidxsort_p)
        /\ \A i \in 1..Len(loop.edgenum) : loop.edgenum[i] >= 1
        \* the edges already passed are longer than the rest and are down to 1
        /\ \A q \in (Len(edgeidxsort_p) + 2 + loop.id)..Len(edgeidxsort_p) :
              /\ loop.edgenum[edgeidxsort_p[q]] = 1
              /\ edgelen_p[edgeidxsort_p[q]] >= edgelen_p[EdgeAt(loop.id)]

ExcessStepOK ==
    pc = "excess" =>
        /\ pc' \in {"excess", "interp"}
        /\ (pc' = "interp") <=> (loop'.passnum = 0)
        /\ \A i \in 1..Len(loop.edgenum) : loop'.edgenum[i] >= 1
        /\ \A i \in 1..Len(loop.edgenum) : i # EdgeAt(loop.id) => loop'.edgenum[i] = loop.edgenum[i]
        /\ loop'.id \in {loop.id, loop.id - 1}
        /\ loop'.id = loop.id - 1 => loop'.edgenum[EdgeAt(loop.id)] = 1
        /\ Variant(loop') < Variant(loop)
        /\ Variant(loop') >= 0

\* C10: the excess loop terminates (every pass lowers a non-negative measure);
\* it goes from the longest edge to shorter ones, leaves an edge at 1 before it
\* moves on, stops when the excess is 0, never reads past the shortest edge and
\* never lowers a count below 1.
C10_ExcessLoop == [](ExcessInv) /\ [][ExcessStepOK]_vars

\* C10 witness: the loop left the longest edge at 1, moved on and ended on the
\* next-longest with the excess at 0.
C10_Witness ==
    /\ pc = "interp" /\ loop.id = -2 /\ loop.passnum = 0
    /\ loop.edgenum[EdgeAt(-1)] = 1
    /\ EdgeNumInit(edgelen_p, newpnum)[EdgeAt(-1)] > 1

\* ----------------------------------------- properties: unify_origin_polygon
\* C9: unify_origin_polygon returns a cyclic rotation of its input whose first
\* point is at minimal distance from the top-mid-point of the bounding box,
\* the one of lowest input index among those at minimal distance.
C9_OriginRotation ==
    opc = "done" =>
        /\ Len(new_poly) = Len(poly)
        /\ \E k \in 1..Len(poly) :
              /\ \A i \in 1..Len(poly) : new_poly[i] = poly[((k - 1 + i - 1) % Len(poly)) + 1]
              /\ \A j \in 1..Len(poly) : OriginDist(poly)[k] <= OriginDist(poly)[j]
              /\ \A j \in 1..(k - 1) : OriginDist(poly)[j] > OriginDist(poly)[k]

\* C9 witness: two distinct points tie at minimal distance and the rotation moved.
C9_Witness ==
    /\ opc = "done" /\ new_poly # poly
    /\ \E i, j \in 1..Len(poly) :
          /\ i < j /\ poly[i] # poly[j]
          /\ OriginDist(poly)[i] = OriginDist(poly)[j]
          /\ \A m \in 1..Len(poly) : OriginDist(poly)[i] <= OriginDist(poly)[m]

\* ---------------------------------------------------- properties: _load_masks
\* The real keypoints and the resampled points of the part matched last.
LastM == Len(RealKeypoints(poly2[idx - 1], poly_weight2[idx - 1]))

LastN == Len(valid_polygons[idx - 1])

LastWeights == valid_weights[idx - 1]

CarryingWeight(w, v) == {r \in 1..Len(w) : w[r] = v}

HasMalformed ==
    \E i \in 1..Len(gt_masks) : \E k \in 1..Len(gt_masks[i]) : ~ValidPart(gt_masks[i][k])

NumValid(inst) == Cardinality({k \in 1..Len(inst) : ValidPart(inst[k])})

AllTiny(ps) == Len(ps) > 0 /\ Len(FilterTinyPolys(ps)) = 0

\* The configurations in which the working resolution is spline_num x
\* num_points and the branch of line 380 is the one num_points asks for.
Agreeing ==
    \/ cfg.spline_num <= 0
    \/ cfg.num_points > 0 /\ SplinePolyNum = cfg.spline_num * cfg.num_points

\* C2: with num_points > 0 and spline_num > 0 every part the fixed-length path
\* produces has exactly num_points points and exactly num_points weights, in
\* unify_polygons' result, during the matching and in the output.
C2_WeightLength ==
    (cfg.num_points > 0 /\ cfg.spline_num > 0) =>
        /\ \A k \in 1..Len(valid_polygons) :
              /\ Len(valid_polygons[k]) = cfg.num_points
              /\ Len(valid_weights[k]) = cfg.num_points
        /\ \A i \in 1..Len(gt_polys) : \A k \in 1..Len(gt_polys[i]) :
              /\ Len(gt_polys[i][k]) = cfg.num_points
              /\ Len(gt_weights[i][k]) = cfg.num_points

\* C3: when every part of an instance is tiny, unify_polygons returns exactly
\* one polygon and the polygon it resampled is the rectangle of the instance's
\* bounding box, top-left, bottom-left, bottom-right, top-right.
C3_Fallback ==
    (Agreeing /\ ~HasMalformed /\ lpc = "match" /\ idx = 1 /\ AllTiny(polygons)) =>
        /\ Len(valid_polygons) = 1
        /\ polygon = BBoxRect(gt_bboxes[inst_idx])

C5_MalformedExcluded ==
    (Agreeing /\ HasMalformed) =>
        /\ lpc # "error"
        /\ \A i \in 1..Len(gt_polys) : Len(gt_polys[i]) = NumValid(gt_masks[i])

\* C8: with num_points = 0 neither unify_polygons nor the matching runs, no
\* exception is raised and every instance's output is a result of
\* process_polygons_m, whatever spline_num is.
C8_SimplifierOnly ==
    (cfg.num_points = 0 /\ ~HasMalformed) =>
        /\ lpc \notin {"unify", "match", "error"}
        /\ \A i \in 1..Len(gt_polys) :
              [polys |-> gt_polys[i], weights |-> gt_weights[i]]
                  \in ProcessPolygonsM(gt_masks[i], cfg.num_points)

\* C11: in unify_polygons tt_idx is always 0, so the roll before the stride
\* is the identity: the subsampled sequence is the resampled points at the
\* 0-based indices 0, spline_num, 2 * spline_num, ... and nothing else, and
\* its first point is the first point uniformsample returned.
C11_IdentityRotation ==
    /\ tt_idx = 0
    /\ (lpc \in {"unify", "match"} /\ Len(valid_polygons) > 0) =>
          /\ Len(valid_polygon) =
                 (Len(sampled_polygon) + cfg.spline_num - 1) \div cfg.spline_num
          /\ \A j \in 1..Len(valid_polygon) :
                 valid_polygon[j] = sampled_polygon[(j - 1) * cfg.spline_num + 1]
          /\ valid_polygon[1] = sampled_polygon[1]

\* C11 witness: a part was resampled to spline_poly_num points, not all the
\* same, and subsampled, so that a roll by another amount would show in the
\* subsampled sequence.
C11_Witness ==
    /\ lpc = "unify" /\ Len(valid_polygons) > 0
    /\ Len(sampled_polygon) = SplinePolyNum /\ Len(sampled_polygon) > cfg.spline_num
    /\ Len(valid_polygon) > 1
    /\ valid_polygon[2] = sampled_polygon[cfg.spline_num + 1]
    /\ sampled_polygon[Len(sampled_polygon)] # sampled_polygon[1]
    /\ sampled_polygon[2] # sampled_polygon[1]

====
